---- MODULE Spec2Model ----
(***************************************************************************)
(* The capture session of App.tsx (React state, the committed render the   *)
(* event handlers close over, the performStacking invocations suspended on *)
(* their pacing delay, the scene-analysis requests in flight) and the      *)
(* pixel pipeline of services/imageProcessing.ts on a solid-colour frame.  *)
(***************************************************************************)
EXTENDS Integers, Sequences, FiniteSets, TLC

\* ------------------------------------------------------------------ bounds
MaxCaptures == 2      \* capture requests accepted in one behaviour
MaxRequests == 1      \* scene-analysis requests in flight at once
MaxClock == 1         \* clock ticks (Date.now()) in one behaviour
NumReadings == 1      \* the metering draws from the first NumReadings isos and the
                      \* first (NumReadings + 1) \div 2 shutters

\* ------------------------------------------------------- program constants
frameCount == 4
VideoWidth == 3840
VideoHeight == 2160

NULL == "null"
NoSelection == <<>>          \* selectedPhoto = null; a selected photo p is <<p>>
CameraMode == {"PHOTO", "VIDEO", "PRO"}
DEFAULT_SETTINGS ==
  [iso |-> 100, shutterSpeed |-> "1/250", aperture |-> "f/1.4", wb |-> "AWB", ev |-> "+0.0"]
isos == <<100, 125, 160, 200, 400, 800>>
shutters == <<"1/500", "1/250", "1/1000", "1/125">>

\* What the browser can answer to the calls the handlers make.
DrawOutcomes == {"frame", "throws"}          \* ctx.drawImage(video, ...)
EncodeOutcomes == {"payload", "throws"}      \* canvas.toDataURL(...)
ModelOutcomes == {"model", "throws"}         \* ai.models.getGenerativeModel(...)
RemoteOutcomes == {"text", "empty", "error"} \* ai.models.generateContent(...)

VARIABLES
  mode, isCapturing, photos, galleryOpen, selectedPhoto, isAnalyzing, aiAnalysis, settings,
  view,       \* the state of the last committed render: what the handlers close over
  canvas,     \* the hidden canvas shared by every capture
  stacks,     \* performStacking invocations suspended on their pacing delay
  captures,   \* capture requests accepted so far
  outcome,    \* how the most recently finished capture ended
  apiKey,     \* process.env.API_KEY || '' of this build, "unread" until first looked at
  requests,   \* generateContent calls awaiting their response
  now,        \* Date.now()
  \* the pixel pipeline on solid-colour frames: one pixel stands for the canvas
  pix,        \* the canvas pixel [r, g, b, a]
  globalAlpha,\* ctx.globalAlpha as <<numerator, denominator>>
  sampled,    \* the frame colours drawn so far, in order
  composite,  \* the canvas pixel handed to processSonyLook
  grade,      \* what the browser gave the look pass: temp context, filter, rounding
  phase,      \* "idle", "stacking", "stacked" or "single"
  \* applyConvolution on a small buffer
  convIn,     \* the arguments of a call: the canvas pixels, its size, the kernel
  convOut,    \* what the call left: the buffer put on the canvas, or the exception
  \* the camera
  stream,     \* the stream state of App (setStream)
  isLoading, cameraError,
  liveStreams,\* the acquired streams whose tracks have not been stopped
  acquired,   \* how many streams getUserMedia has handed out
  srcObject,  \* videoRef.current.srcObject
  starts,     \* startCamera invocations suspended on an await
  startCount, \* startCamera invocations so far
  camLog      \* how the most recently finished startCamera went

vars == <<mode, isCapturing, photos, galleryOpen, selectedPhoto, isAnalyzing, aiAnalysis,
          settings, view, canvas, stacks, captures, outcome, apiKey, requests, now,
          pix, globalAlpha, sampled, composite, grade, phase,
          convIn, convOut,
          stream, isLoading, cameraError, liveStreams, acquired, srcObject, starts,
          startCount, camLog>>

sessionVars == <<mode, isCapturing, photos, galleryOpen, selectedPhoto, isAnalyzing, aiAnalysis,
                 settings, view, canvas, stacks, captures, outcome, apiKey, requests, now>>
pipeVars == <<pix, globalAlpha, sampled, composite, grade, phase>>
convVars == <<convIn, convOut>>
camState == <<stream, isLoading, cameraError>>
camVars == <<stream, isLoading, cameraError, liveStreams, acquired, srcObject, starts,
             startCount, camLog>>

reactState == <<mode, isCapturing, photos, galleryOpen, selectedPhoto, isAnalyzing,
                aiAnalysis, settings>>

\* The values of one render of App: every useState value as the JSX and the
\* handlers created by that render see it.
Snapshot ==
  [mode |-> mode, isCapturing |-> isCapturing, photos |-> photos, galleryOpen |-> galleryOpen,
   selectedPhoto |-> selectedPhoto, isAnalyzing |-> isAnalyzing, settings |-> settings,
   isLoading |-> isLoading, cameraError |-> cameraError]

\* What the canvas holds: nothing, composited frames or a graded image, made
\* of no frame, one frame or several.
BlankCanvas == [stage |-> "clear", frames |-> "none"]
NoOutcome == [fault |-> "none", added |-> FALSE, returned |-> "undefined"]

\* A cleared canvas is transparent black.
ClearPixel == [r |-> 0, g |-> 0, b |-> 0, a |-> 0]

NoGrade == [tempOk |-> TRUE, filterOk |-> TRUE, rnd |-> "nearest"]

NoConvInput == [width |-> 0, height |-> 0, data |-> <<>>, kernel |-> <<>>]
NoConvOutput == [status |-> "none", data |-> <<>>]
NoStream == 0      \* useState<MediaStream | null>(null); the streams are 1, 2, ...
NoCamLog == [error |-> NULL, preferred |-> "none", fallback |-> "none", play |-> "none"]

\* App as constructed, before any call of applyConvolution is set up.
AppInit ==
  /\ mode = "PHOTO"
  /\ isCapturing = FALSE
  /\ photos = <<>>
  /\ galleryOpen = FALSE
  /\ selectedPhoto = NoSelection
  /\ isAnalyzing = FALSE
  /\ aiAnalysis = NULL
  /\ settings = DEFAULT_SETTINGS
  /\ canvas = BlankCanvas
  /\ stacks = {}
  /\ captures = 0
  /\ outcome = NoOutcome
  /\ apiKey = "unread"
  /\ requests = <<>>
  /\ now = 0
  /\ pix = ClearPixel
  /\ globalAlpha = <<1, 1>>
  /\ sampled = <<>>
  /\ composite = ClearPixel
  /\ grade = NoGrade
  /\ phase = "idle"
  /\ convOut = NoConvOutput
  /\ stream = NoStream
  /\ isLoading = TRUE
  /\ cameraError = NULL
  /\ liveStreams = {}
  /\ acquired = 0
  /\ srcObject = NoStream
  /\ starts = {}
  /\ startCount = 0
  /\ camLog = NoCamLog
  /\ view = Snapshot

Init == AppInit /\ convIn = NoConvInput

\* ---------------------------------------------------------------- rendering
\* React commits a render: the JSX and the handlers now see the current state.
Render ==
  /\ view # Snapshot
  /\ view' = Snapshot
  /\ UNCHANGED <<reactState, canvas, stacks, captures, outcome, apiKey, requests, now>>
  /\ UNCHANGED pipeVars
  /\ UNCHANGED <<convVars, camVars>>

\* Date.now() advances.
Tick ==
  /\ now < MaxClock
  /\ now' = now + 1
  /\ UNCHANGED <<reactState, view, canvas, stacks, captures, outcome, apiKey, requests>>
  /\ UNCHANGED pipeVars
  /\ UNCHANGED <<convVars, camVars>>

\* ----------------------------------------------------------------- metering
MeterIsos == {isos[k] : k \in 1..NumReadings}
MeterShutters == {shutters[k] : k \in 1..((NumReadings + 1) \div 2)}

\* The setInterval callback of the Simulated Light Metering effect.
MeterTick ==
  /\ \E iso \in MeterIsos, sh \in MeterShutters :
       settings' = [settings EXCEPT !.iso = iso, !.shutterSpeed = sh]
  /\ UNCHANGED <<mode, isCapturing, photos, galleryOpen, selectedPhoto, isAnalyzing, aiAnalysis,
                 view, canvas, stacks, captures, outcome, apiKey, requests, now>>
  /\ UNCHANGED pipeVars
  /\ UNCHANGED <<convVars, camVars>>

\* ------------------------------------------------------------------ controls
\* Controls is mounted only when the gallery is closed and the camera
\* reports no error (App.tsx 255).
ControlsShown == ~view.galleryOpen /\ view.cameraError = NULL

\* A button of the mode dial.
setMode(m) ==
  /\ ControlsShown
  /\ mode' = m
  /\ UNCHANGED <<isCapturing, photos, galleryOpen, selectedPhoto, isAnalyzing, aiAnalysis,
                 settings, view, canvas, stacks, captures, outcome, apiKey, requests, now>>
  /\ UNCHANGED pipeVars
  /\ UNCHANGED <<convVars, camVars>>

\* ------------------------------------------------------------------ capture
\* What the handleCapture created by the committed render closes over.
CaptureClosure == [mode |-> view.mode, settings |-> view.settings]

\* if (!videoRef.current || !canvasRef.current || isCapturing) return;  and
\* the shutter button's disabled={isCapturing}.
CaptureAccepted == ~view.isCapturing

\* A variant of PhotoMetadata that reads the session's state when the
\* artifact is built instead of the values the handler closed over.
PhotoMetadataLive(cl) ==
  [iso |-> settings.iso, shutterSpeed |-> settings.shutterSpeed,
   aperture |-> settings.aperture, wb |-> settings.wb, ev |-> settings.ev,
   mode |-> mode]

\* metadata: { ...settings, mode }
PhotoMetadata(cl) ==
  [iso |-> cl.settings.iso, shutterSpeed |-> cl.settings.shutterSpeed,
   aperture |-> cl.settings.aperture, wb |-> cl.settings.wb, ev |-> cl.settings.ev,
   mode |-> cl.mode]

\* A variant of PhotoIsEnhanced that reads the mode state when the artifact
\* is built.
PhotoIsEnhancedLive(cl) == mode = "PRO"

\* isEnhanced: mode === CameraMode.PRO
PhotoIsEnhanced(cl) == cl.mode = "PRO"

\* The newPhoto literal. hist is bookkeeping of the model: what was in effect
\* when the artifact was requested, which pipeline produced the payload and
\* the pipeline steps it took.
NewPhoto(cl, dataUrl, hist) ==
  [id |-> ToString(now), url |-> dataUrl, timestamp |-> now,
   width |-> VideoWidth, height |-> VideoHeight,
   isEnhanced |-> PhotoIsEnhanced(cl), metadata |-> PhotoMetadata(cl), hist |-> hist]

\* A variant of CaptureFinally that forgets to reset the flag.
CaptureFinallyDropped == UNCHANGED isCapturing

\* finally { setIsCapturing(false); }
CaptureFinally == isCapturing' = FALSE

\* let dataUrl = '': no payload yet.
EmptyUrl == [type |-> "", data |-> ""]

\* canvas.toDataURL('image/jpeg', 0.95) of the canvas content.
ToDataURL(c) == [type |-> "image/jpeg", data |-> c.frames \o "/" \o c.stage]

\* processSonyLook(canvas), as one pass over the session's canvas.
LookPass(c) == [c EXCEPT !.stage = "look"]

\* ctx.drawImage(video, ...) composites one more frame.
DrawFrame(c) ==
  [stage |-> "frames", frames |-> IF c.frames = "none" THEN "one" ELSE "many"]

\* Lines 143-159 of handleCapture: the artifact when there is a payload, the
\* catch that only logs, the finally. an empty dataUrl adds nothing.
SettleCapture(h, cl, dataUrl, fault) ==
  /\ photos' = IF dataUrl # EmptyUrl
                 THEN <<NewPhoto(cl, dataUrl, h)>> \o photos
                 ELSE photos
  /\ CaptureFinally
  /\ outcome' = [fault |-> fault, added |-> dataUrl # EmptyUrl, returned |-> "undefined"]

\* The else branch of handleCapture: one frame, the look, the encoding, all
\* within the click's own task.
NormalCapture(h, cl, ctxOk, draw, enc) ==
  /\ UNCHANGED stacks
  /\ IF ~ctxOk
       THEN /\ canvas' = BlankCanvas
            /\ SettleCapture(h, cl, EmptyUrl, "NoContext")
       ELSE IF draw = "throws"
         THEN /\ canvas' = BlankCanvas
              /\ SettleCapture(h, cl, EmptyUrl, "FrameSourceUnavailable")
         ELSE LET looked == LookPass(DrawFrame(BlankCanvas)) IN
              /\ canvas' = looked
              /\ IF enc = "throws"
                   THEN SettleCapture([h EXCEPT !.trace = <<"sample", "look">>], cl, EmptyUrl,
                                      "EncodingFailure")
                   ELSE SettleCapture([h EXCEPT !.trace = <<"sample", "look", "encode">>], cl,
                                      ToDataURL(looked), "none")

\* A variant of StackLoopContinues that is off by one.
StackLoopInclusive(i) == i <= frameCount

\* for (let i = 0; i < frameCount; i++)
StackLoopContinues(i) == i < frameCount

\* performStacking up to its first await: the context, the canvas sized and
\* cleared, frame 1 drawn.
StartStacking(h, cl, ctxOk, draw) ==
  IF ~ctxOk
    THEN /\ UNCHANGED <<canvas, stacks>>
         /\ SettleCapture(h, cl, EmptyUrl, "NoContext")
    ELSE IF draw = "throws"
      THEN /\ canvas' = BlankCanvas
           /\ UNCHANGED stacks
           /\ SettleCapture(h, cl, EmptyUrl, "FrameSourceUnavailable")
      ELSE /\ canvas' = DrawFrame(BlankCanvas)
           /\ stacks' = stacks \cup {[cap |-> captures + 1, i |-> 0, cl |-> cl,
                                      due |-> Cardinality(stacks) + 1,
                                      hist |-> [h EXCEPT !.trace = <<"sample">>]]}
           /\ isCapturing' = TRUE
           /\ UNCHANGED <<photos, outcome>>

\* A press of the shutter button.
handleCapture ==
  /\ ControlsShown
  /\ CaptureAccepted
  /\ captures < MaxCaptures
  /\ captures' = captures + 1
  /\ LET cl == CaptureClosure
         h == [requested |-> [settings |-> view.settings, mode |-> view.mode],
               via |-> IF cl.mode = "PRO" THEN "stack" ELSE "single", trace |-> <<>>]
     IN \E ctxOk \in BOOLEAN, draw \in DrawOutcomes, enc \in EncodeOutcomes :
          IF cl.mode = "PRO"
            THEN StartStacking(h, cl, ctxOk, draw)
            ELSE NormalCapture(h, cl, ctxOk, draw, enc)
  /\ UNCHANGED <<mode, galleryOpen, selectedPhoto, isAnalyzing, aiAnalysis, settings, view,
                 apiKey, requests, now>>
  /\ UNCHANGED pipeVars
  /\ UNCHANGED <<convVars, camVars>>

\* await new Promise(r => setTimeout(r, 50)): every pacing timer has the same
\* delay, so the timers fire in the order they were set; due is a suspended
\* stack's place in that order. The other stacks once the timer of s fired.
TimersAfter(s) == {[t EXCEPT !.due = @ - 1] : t \in stacks \ {s}}

\* The 50 ms pacing delay of a suspended performStacking elapses: the next
\* frame, or after the last one the look, the encoding and the rest of
\* handleCapture (promise continuations of the same task).
StackTimer(s) ==
  /\ s \in stacks
  /\ s.due = 1
  /\ LET i == s.i + 1 IN
     IF StackLoopContinues(i)
       THEN \E draw \in DrawOutcomes :
              IF draw = "throws"
                THEN /\ stacks' = TimersAfter(s)
                     /\ UNCHANGED canvas
                     /\ SettleCapture(s.hist, s.cl, EmptyUrl, "FrameSourceUnavailable")
                ELSE /\ canvas' = DrawFrame(canvas)
                     /\ stacks' = TimersAfter(s) \cup
                          {[s EXCEPT !.i = i, !.due = Cardinality(stacks),
                                     !.hist.trace = Append(@, "sample")]}
                     /\ UNCHANGED <<photos, isCapturing, outcome>>
       ELSE \E enc \in EncodeOutcomes :
              LET looked == LookPass(canvas) IN
              /\ canvas' = looked
              /\ stacks' = TimersAfter(s)
              /\ IF enc = "throws"
                   THEN SettleCapture([s.hist EXCEPT !.trace = Append(@, "look")], s.cl, EmptyUrl,
                                      "EncodingFailure")
                   ELSE SettleCapture([s.hist EXCEPT !.trace = @ \o <<"look", "encode">>], s.cl,
                                      ToDataURL(looked), "none")
  /\ UNCHANGED <<mode, galleryOpen, selectedPhoto, isAnalyzing, aiAnalysis, settings, view,
                 captures, apiKey, requests, now>>
  /\ UNCHANGED pipeVars
  /\ UNCHANGED <<convVars, camVars>>

\* ------------------------------------------------------------------ gallery
\* onGalleryClick of Controls.
openGallery ==
  /\ ControlsShown
  /\ galleryOpen' = TRUE
  /\ UNCHANGED <<mode, isCapturing, photos, selectedPhoto, isAnalyzing, aiAnalysis, settings,
                 view, canvas, stacks, captures, outcome, apiKey, requests, now>>
  /\ UNCHANGED pipeVars
  /\ UNCHANGED <<convVars, camVars>>

\* The X button of the gallery header.
closeGallery ==
  /\ view.galleryOpen
  /\ galleryOpen' = FALSE
  /\ selectedPhoto' = NoSelection
  /\ aiAnalysis' = NULL
  /\ UNCHANGED <<mode, isCapturing, photos, isAnalyzing, settings,
                 view, canvas, stacks, captures, outcome, apiKey, requests, now>>
  /\ UNCHANGED pipeVars
  /\ UNCHANGED <<convVars, camVars>>

\* A thumbnail of the grid view (shown while no photo is selected).
selectPhoto(k) ==
  /\ view.galleryOpen
  /\ view.selectedPhoto = NoSelection
  /\ k \in 1..Len(view.photos)
  /\ selectedPhoto' = <<view.photos[k]>>
  /\ UNCHANGED <<mode, isCapturing, photos, galleryOpen, isAnalyzing, aiAnalysis, settings,
                 view, canvas, stacks, captures, outcome, apiKey, requests, now>>
  /\ UNCHANGED pipeVars
  /\ UNCHANGED <<convVars, camVars>>

\* ----------------------------------------------------------- scene analysis
KeyMissingText == "API Key missing. AI features disabled."
CouldNotAnalyzeText == "Could not analyze scene."
AnalysisFailedText == "Analysis failed."
ServiceUnavailableText == "AI Service Unavailable."

\* base64Image.split(',')[1] of a payload: the data after the header.
Base64Data(url) == url.data

\* The text the remote model writes about a payload.
RemoteText(url) == "insight:" \o Base64Data(url)

\* A variant of AnalyzeCatch that lets the error out.
AnalyzeCatchRethrows == [kind |-> "throw", value |-> NULL]

\* catch (error) { ...; return "Could not analyze scene."; }
AnalyzeCatch == [kind |-> "return", value |-> CouldNotAnalyzeText]

\* const apiKey = process.env.API_KEY || '': fixed for the build, whatever it is.
ApiKeyRead == IF apiKey = "unread" THEN {"set", "missing"} ELSE {apiKey}

\* analyzeImageScene up to its await: the key check, then inside the try the
\* model lookup and the generateContent call.
AnalyzeImageSceneCall(key, lookup) ==
  IF key = "missing" THEN [kind |-> "return", value |-> KeyMissingText]
  ELSE IF lookup = "throws" THEN AnalyzeCatch
  ELSE [kind |-> "await", value |-> NULL]

\* analyzeImageScene after its await: response.text || "Analysis failed.",
\* or the catch.
AnalyzeImageSceneResume(remote, url) ==
  IF remote = "error" THEN AnalyzeCatch
  ELSE IF remote = "empty" THEN [kind |-> "return", value |-> AnalysisFailedText]
  ELSE [kind |-> "return", value |-> RemoteText(url)]

\* handleAiAnalysis after its await: setAiAnalysis(result), or the catch,
\* then the finally.
SettleAnalysis(r) ==
  /\ aiAnalysis' = IF r.kind = "throw" THEN ServiceUnavailableText ELSE r.value
  /\ isAnalyzing' = FALSE

\* The ANALYZE SCENE button (disabled={isAnalyzing}) of the selected photo.
handleAiAnalysis ==
  /\ view.galleryOpen
  /\ view.selectedPhoto # NoSelection
  /\ ~view.isAnalyzing
  /\ Len(requests) < MaxRequests
  /\ \E key \in ApiKeyRead, lookup \in ModelOutcomes :
       LET r == AnalyzeImageSceneCall(key, lookup) IN
       /\ apiKey' = key
       /\ IF r.kind = "await"
            THEN /\ isAnalyzing' = TRUE
                 /\ aiAnalysis' = NULL
                 /\ requests' = Append(requests, view.selectedPhoto[1].url)
            ELSE /\ SettleAnalysis(r)
                 /\ UNCHANGED requests
  /\ UNCHANGED <<mode, isCapturing, photos, galleryOpen, selectedPhoto, settings,
                 view, canvas, stacks, captures, outcome, now>>
  /\ UNCHANGED pipeVars
  /\ UNCHANGED <<convVars, camVars>>

\* generateContent of request k settles.
AiResponse(k) ==
  /\ k \in 1..Len(requests)
  /\ \E remote \in RemoteOutcomes :
       SettleAnalysis(AnalyzeImageSceneResume(remote, requests[k]))
  /\ requests' = [j \in 1..(Len(requests) - 1) |-> IF j < k THEN requests[j] ELSE requests[j + 1]]
  /\ UNCHANGED <<mode, isCapturing, photos, galleryOpen, selectedPhoto, settings,
                 view, canvas, stacks, captures, outcome, apiKey, now>>
  /\ UNCHANGED pipeVars
  /\ UNCHANGED <<convVars, camVars>>

\* ------------------------------------------------------------ pixel pipeline
NumColors == 3        \* how many colours of Palette the frame source shows

\* Solid frame colours the model's frame source can show.
Palette ==
  <<[r |-> 0, g |-> 0, b |-> 0, a |-> 255], [r |-> 255, g |-> 255, b |-> 255, a |-> 255],
    [r |-> 200, g |-> 100, b |-> 50, a |-> 255], [r |-> 10, g |-> 128, b |-> 250, a |-> 255],
    [r |-> 90, g |-> 40, b |-> 160, a |-> 255]>>
FrameColors == {Palette[k] : k \in 1..NumColors}

\* How the canvas brings a blended value back to an 8-bit level is the
\* browser's choice.
RoundModes == {"down", "nearest", "up"}
Quantise(num, den, rnd) ==
  CASE rnd = "down" -> num \div den
    [] rnd = "up" -> (num + den - 1) \div den
    [] OTHER -> (num + den \div 2) \div den

Clamp(x) == IF x < 0 THEN 0 ELSE IF x > 255 THEN 255 ELSE x

\* A variant of SourceOver that ignores the opacity: the source replaces
\* what was there.
SourceOverOpaque(dst, src, ga, rnd) == src

\* drawImage / fillRect under globalCompositeOperation = 'source-over':
\* src drawn with opacity ga = <<n, d>> over dst.
SourceOver(dst, src, ga, rnd) ==
  LET n == ga[1]
      d == ga[2]
      add == 255 * src.a * n
      keep == dst.a * (255 * d - src.a * n)
      tot == add + keep
      Ch(sc, dc) == IF tot = 0 THEN 0 ELSE Quantise(sc * add + dc * keep, tot, rnd)
  IN [r |-> Ch(src.r, dst.r), g |-> Ch(src.g, dst.g), b |-> Ch(src.b, dst.b),
      a |-> Quantise(tot, 255 * d, rnd)]

\* A variant of GlobalAlphaAt with one opacity for every frame.
GlobalAlphaHalf(i) == <<1, 2>>

\* ctx.globalAlpha = 1 / (i + 1)
GlobalAlphaAt(i) == <<1, i + 1>>

\* The loop of performStacking over the frames fs as a function: what the
\* canvas holds after the last of them.
RECURSIVE StackComposite(_, _)
StackComposite(fs, rnd) ==
  IF Len(fs) = 0 THEN ClearPixel
  ELSE SourceOver(StackComposite(SubSeq(fs, 1, Len(fs) - 1), rnd), fs[Len(fs)],
                  GlobalAlphaAt(Len(fs) - 1), rnd)

ISqrt(n) == CHOOSE k \in 0..255 : k * k <= n /\ (k + 1) * (k + 1) > n

\* The 'overlay' blend of a backdrop level cb and a source level cs.
Overlay(cb, cs) ==
  IF cb < 128 THEN (2 * cb * cs) \div 255
  ELSE 255 - (2 * (255 - cb) * (255 - cs)) \div 255

\* The 'soft-light' blend of a backdrop level cb and a source level cs.
SoftLight(cb, cs) ==
  IF 2 * cs <= 255
    THEN cb - ((255 - 2 * cs) * cb * (255 - cb)) \div (255 * 255)
    ELSE LET dd == IF 4 * cb <= 255
                     THEN (16 * cb * cb * cb - 12 * 255 * cb * cb + 4 * 255 * 255 * cb)
                            \div (255 * 255)
                     ELSE ISqrt(255 * cb)
         IN cb + ((2 * cs - 255) * (dd - cb)) \div 255

Blend(op, cb, cs) == IF op = "overlay" THEN Overlay(cb, cs) ELSE SoftLight(cb, cs)

\* ctx.globalCompositeOperation = op; ctx.fillStyle = fill (its alpha
\* pct / 100); ctx.fillRect(0, 0, width, height)
BlendFill(px, op, fill, pct, ga, rnd) ==
  LET Mix(cb, cs) == Clamp(((255 - px.a) * cs + px.a * Blend(op, cb, cs)) \div 255)
      src == [r |-> Mix(px.r, fill.r), g |-> Mix(px.g, fill.g), b |-> Mix(px.b, fill.b),
              a |-> 255]
  IN SourceOver(px, src, <<pct * ga[1], 100 * ga[2]>>, rnd)

ShadowTint == [r |-> 0, g |-> 0, b |-> 20]         \* rgba(0, 0, 20, 0.1)
WarmTint == [r |-> 255, g |-> 150, b |-> 50]       \* rgba(255, 150, 50, 0.15)

\* filter contrast(1.15): levels scaled about mid-grey.
Contrast(px) ==
  LET C(c) == Clamp((1150 * c - 19125) \div 1000)
  IN [r |-> C(px.r), g |-> C(px.g), b |-> C(px.b), a |-> px.a]

\* filter saturate(1.1): channels pushed away from the pixel's luma.
Saturate(px) ==
  [r |-> Clamp((10787 * px.r - 715 * px.g - 72 * px.b) \div 10000),
   g |-> Clamp((10285 * px.g - 213 * px.r - 72 * px.b) \div 10000),
   b |-> Clamp((10928 * px.b - 213 * px.r - 715 * px.g) \div 10000),
   a |-> px.a]

\* ctx.filter = 'contrast(1.15) saturate(1.1)' where the browser has it.
Filtered(px, filterOk) == IF filterOk THEN Saturate(Contrast(px)) ELSE px

\* Stage 1 of the look: the blue overlay for the shadows.
ShadowStage(px, ga, rnd) == BlendFill(px, "overlay", ShadowTint, 10, ga, rnd)

\* Stage 2 of the look: the orange soft-light for warmth.
WarmStage(px, ga, rnd) == BlendFill(px, "soft-light", WarmTint, 15, ga, rnd)

\* Stage 3 of the look: ctx.filter set, then ctx.drawImage(tempCanvas, 0, 0):
\* the saved copy, filtered, drawn source-over onto the tinted canvas.
ContrastStage(tinted, temp, ga, filterOk, rnd) ==
  SourceOver(tinted, Filtered(temp, filterOk), ga, rnd)

\* processSonyLook on the canvas pixel px, with ctx.globalAlpha = ga.
processSonyLook(px, ga, env) ==
  IF ~env.tempOk THEN px
  ELSE LET temp == px
           redrawn == SourceOver(ClearPixel, temp, ga, env.rnd)
           tinted == WarmStage(ShadowStage(redrawn, ga, env.rnd), ga, env.rnd)
       IN ContrastStage(tinted, temp, ga, env.filterOk, env.rnd)

GradeEnvs == [tempOk : BOOLEAN, filterOk : BOOLEAN, rnd : RoundModes]

\* performStacking to its first await: canvas cleared, frame 1 drawn.
performStackingBegin ==
  /\ phase = "idle"
  /\ \E c \in FrameColors, rnd \in RoundModes :
       /\ globalAlpha' = GlobalAlphaAt(0)
       /\ pix' = SourceOver(ClearPixel, c, GlobalAlphaAt(0), rnd)
       /\ sampled' = <<c>>
  /\ phase' = "stacking"
  /\ UNCHANGED <<composite, grade>>
  /\ UNCHANGED sessionVars
  /\ UNCHANGED <<convVars, camVars>>

\* One more turn of the loop after the pacing delay.
performStackingFrame ==
  /\ phase = "stacking"
  /\ StackLoopContinues(Len(sampled))
  /\ \E c \in FrameColors, rnd \in RoundModes :
       /\ globalAlpha' = GlobalAlphaAt(Len(sampled))
       /\ pix' = SourceOver(pix, c, GlobalAlphaAt(Len(sampled)), rnd)
       /\ sampled' = Append(sampled, c)
  /\ UNCHANGED <<composite, grade, phase>>
  /\ UNCHANGED sessionVars
  /\ UNCHANGED <<convVars, camVars>>

\* The loop is over: ctx.globalAlpha = 1.0; processSonyLook(canvas).
performStackingEnd ==
  /\ phase = "stacking"
  /\ ~StackLoopContinues(Len(sampled))
  /\ globalAlpha' = <<1, 1>>
  /\ composite' = pix
  /\ \E env \in GradeEnvs :
       /\ grade' = env
       /\ pix' = processSonyLook(pix, <<1, 1>>, env)
  /\ phase' = "stacked"
  /\ UNCHANGED sampled
  /\ UNCHANGED sessionVars
  /\ UNCHANGED <<convVars, camVars>>

\* The else branch of handleCapture on the pixel: the canvas sized (which
\* resets it), one frame drawn, processSonyLook.
normalCapturePixel ==
  /\ phase = "idle"
  /\ \E c \in FrameColors, env \in GradeEnvs :
       LET drawn == SourceOver(ClearPixel, c, <<1, 1>>, env.rnd) IN
       /\ sampled' = <<c>>
       /\ composite' = drawn
       /\ grade' = env
       /\ pix' = processSonyLook(drawn, <<1, 1>>, env)
  /\ globalAlpha' = <<1, 1>>
  /\ phase' = "single"
  /\ UNCHANGED sessionVars
  /\ UNCHANGED <<convVars, camVars>>

\* ------------------------------------------------------------------- camera
MaxStarts == 3          \* startCamera invocations in one run

CameraErrorText == "SENSOR ERROR: ACCESS DENIED OR NOT FOUND"
MediaOutcomes == {"resolves", "rejects"}    \* getUserMedia(...), video.play()

\* The stream the body of startCamera sees: useCallback(..., []) keeps the
\* function of the first render, whose stream is the initial null.
StartCameraStream == NoStream

\* if (stream) { stream.getTracks().forEach(track => track.stop()); }
StopExisting(live) ==
  IF StartCameraStream # NoStream THEN live \ {StartCameraStream} ELSE live

\* startCamera up to its first await: the flags, the stop of the existing
\* tracks, the getUserMedia call with the preferred constraints.
StartCameraCall ==
  /\ startCount < MaxStarts
  /\ startCount' = startCount + 1
  /\ isLoading' = TRUE
  /\ cameraError' = NULL
  /\ liveStreams' = StopExisting(liveStreams)
  /\ starts' = starts \cup {[call |-> startCount + 1, at |-> "preferred",
                             preferred |-> "none", fallback |-> "none"]}
  /\ UNCHANGED <<stream, acquired, srcObject, camLog>>
  /\ UNCHANGED <<mode, isCapturing, photos, galleryOpen, selectedPhoto, isAnalyzing, aiAnalysis,
                 settings, view, canvas, stacks, captures, outcome, apiKey, requests, now>>
  /\ UNCHANGED <<pipeVars, convVars>>

\* The Initialize Camera effect, run once after the first render.
mountEffect ==
  /\ startCount = 0
  /\ StartCameraCall

\* The RETRY INITIALIZATION button of the error screen.
retryCamera ==
  /\ view.cameraError # NULL
  /\ ~view.isLoading
  /\ StartCameraCall

\* catch (err) { ...; setCameraError(...) } finally { setIsLoading(false) }
StartCameraFails(s, log) ==
  /\ cameraError' = CameraErrorText
  /\ isLoading' = FALSE
  /\ starts' = starts \ {s}
  /\ camLog' = [log EXCEPT !.error = CameraErrorText]

\* A stream has been acquired: setStream(mediaStream), the video element
\* given it, play() called and awaited.
StreamAcquired(s, tried) ==
  /\ acquired' = acquired + 1
  /\ liveStreams' = liveStreams \cup {acquired + 1}
  /\ stream' = acquired + 1
  /\ srcObject' = acquired + 1
  /\ starts' = (starts \ {s}) \cup {[tried EXCEPT !.at = "play"]}
  /\ UNCHANGED <<isLoading, cameraError, camLog>>

\* An await of a suspended startCamera settles: the preferred or the
\* fallback getUserMedia, or play().
StartCameraResume(s) ==
  /\ s \in starts
  /\ \E result \in MediaOutcomes :
       CASE s.at = "preferred" ->
              IF result = "resolves"
                THEN StreamAcquired(s, [s EXCEPT !.preferred = result])
                ELSE /\ starts' = (starts \ {s}) \cup
                          {[s EXCEPT !.at = "fallback", !.preferred = result]}
                     /\ UNCHANGED <<stream, isLoading, cameraError, liveStreams, acquired,
                                    srcObject, camLog>>
         [] s.at = "fallback" ->
              IF result = "resolves"
                THEN StreamAcquired(s, [s EXCEPT !.fallback = result])
                ELSE /\ StartCameraFails(s, [error |-> NULL, preferred |-> s.preferred,
                                             fallback |-> result, play |-> "none"])
                     /\ UNCHANGED <<stream, liveStreams, acquired, srcObject>>
         [] OTHER ->
              /\ IF result = "resolves"
                   THEN /\ isLoading' = FALSE
                        /\ starts' = starts \ {s}
                        /\ camLog' = [error |-> NULL, preferred |-> s.preferred,
                                      fallback |-> s.fallback, play |-> result]
                        /\ UNCHANGED cameraError
                   ELSE StartCameraFails(s, [error |-> NULL, preferred |-> s.preferred,
                                             fallback |-> s.fallback, play |-> result])
              /\ UNCHANGED <<stream, liveStreams, acquired, srcObject>>
  /\ UNCHANGED startCount
  /\ UNCHANGED <<mode, isCapturing, photos, galleryOpen, selectedPhoto, isAnalyzing, aiAnalysis,
                 settings, view, canvas, stacks, captures, outcome, apiKey, requests, now>>
  /\ UNCHANGED <<pipeVars, convVars>>

\* -------------------------------------------------------------- convolution
MaxDim == 2             \* canvas width and height run over 0..MaxDim
MaxKernelLength == 9    \* kernel arrays of 0..MaxKernelLength weights

\* Pixels of the canvas a convolution reads.
ConvColors ==
  {[r |-> 200, g |-> 100, b |-> 50, a |-> 255], [r |-> 10, g |-> 128, b |-> 250, a |-> 128]}

\* Kernel weights, in halves: -1, 0, 1/2, 1 and 2.
HotWeights == {-2, 1, 2, 4}
RestWeights == {0, 2}

\* The canvases of the model: every pixel bg but the one at index hot, fg.
\* A canvas with no pixels has a width or a height of 0.
ConvBuffers ==
  {[width |-> w, height |-> h, data |-> [k \in 1..(w * h) |-> IF k = hot THEN fg ELSE bg]] :
     w \in 0..MaxDim, h \in 0..MaxDim, hot \in 1..MaxDim * MaxDim,
     fg \in ConvColors, bg \in ConvColors}

\* The kernels of the model: every weight rest but the one at index hot.
ConvKernels ==
  {[k \in 1..len |-> IF k = hot THEN c ELSE o] :
     len \in 0..MaxKernelLength, hot \in 1..MaxKernelLength, c \in HotWeights, o \in RestWeights}

ConvInputs ==
  {[width |-> b.width, height |-> b.height, data |-> b.data, kernel |-> k] :
     b \in ConvBuffers, k \in ConvKernels}

\* Math.round(Math.sqrt(n)) for an array length n.
RoundSqrt(n) ==
  IF n = 0 THEN 0
  ELSE CHOOSE x \in 1..n : (2 * x - 1) * (2 * x - 1) <= 4 * n /\ 4 * n < (2 * x + 1) * (2 * x + 1)

\* const side = Math.round(Math.sqrt(kernel.length))
KernelSide(kernel) == RoundSqrt(Len(kernel))

\* A variant of HalfSide that rounds up.
HalfSideCeil(side) == (side + 1) \div 2

\* const halfSide = Math.floor(side / 2)
HalfSide(side) == side \div 2

\* A variant of ToUint8Clamped that keeps the low eight bits.
ToUint8Wrapped(halves) == (halves \div 2) % 256

\* A store into ImageData.data, a Uint8ClampedArray, of a sum given in
\* halves: clamped to 0..255, a tie rounded to the even neighbour.
ToUint8Clamped(halves) ==
  IF halves <= 0 THEN 0
  ELSE IF halves >= 510 THEN 255
  ELSE LET q == halves \div 2 IN
       IF halves % 2 = 0 THEN q ELSE IF q % 2 = 0 THEN q ELSE q + 1

\* if (scy >= 0 && scy < sh && scx >= 0 && scx < sw)
InBounds(in, scx, scy) == scy >= 0 /\ scy < in.height /\ scx >= 0 /\ scx < in.width

\* src[(scy * sw + scx) * 4 + channel]
SourceLevel(in, scx, scy, ch) ==
  LET px == in.data[scy * in.width + scx + 1] IN
  CASE ch = "r" -> px.r [] ch = "g" -> px.g [] ch = "b" -> px.b [] OTHER -> px.a

\* kernel[cy * side + cx] is undefined past the end of the array.
KernelDefined(kernel, at) == at + 1 <= Len(kernel)

\* The loops over cy and cx from tap k on: the sum, in halves, of the
\* in-bounds samples times their weights (an undefined weight counted as 0
\* here, see Poisoned).
RECURSIVE Accumulate(_, _, _, _, _)
Accumulate(in, x, y, ch, k) ==
  LET side == KernelSide(in.kernel)
      scy == y + (k \div side) - HalfSide(side)
      scx == x + (k % side) - HalfSide(side)
  IN IF k >= side * side THEN 0
     ELSE (IF InBounds(in, scx, scy) /\ KernelDefined(in.kernel, k)
             THEN SourceLevel(in, scx, scy, ch) * in.kernel[k + 1]
             ELSE 0)
          + Accumulate(in, x, y, ch, k + 1)

\* Some in-bounds sample met an undefined weight: the sums are NaN.
Poisoned(in, x, y) ==
  LET side == KernelSide(in.kernel) IN
  \E k \in 0..(side * side - 1) :
    /\ InBounds(in, x + (k % side) - HalfSide(side), y + (k \div side) - HalfSide(side))
    /\ ~KernelDefined(in.kernel, k)

\* dst[dstOff + channel] = r, g or b: a NaN is stored as 0.
StoredLevel(in, x, y, ch) ==
  IF Poisoned(in, x, y) THEN 0 ELSE ToUint8Clamped(Accumulate(in, x, y, ch, 0))

\* The output buffer: the sums in red, green and blue, the alpha copied.
ConvolvedData(in) ==
  [k \in 1..(in.width * in.height) |->
     LET x == (k - 1) % in.width
         y == (k - 1) \div in.width
     IN [r |-> StoredLevel(in, x, y, "r"), g |-> StoredLevel(in, x, y, "g"),
         b |-> StoredLevel(in, x, y, "b"), a |-> SourceLevel(in, x, y, "a")]]

\* ctx.getImageData(0, 0, width, height) throws when a side is 0.
GetImageDataThrows(in) == in.width = 0 \/ in.height = 0

\* A call of applyConvolution: the exception of getImageData, or the output
\* buffer put on the canvas.
applyConvolution ==
  /\ convOut.status = "none"
  /\ convOut' = IF GetImageDataThrows(convIn)
                  THEN [status |-> "IndexSizeError", data |-> convIn.data]
                  ELSE [status |-> "returned", data |-> ConvolvedData(convIn)]
  /\ UNCHANGED convIn
  /\ UNCHANGED <<sessionVars, pipeVars, camVars>>

\* ------------------------------------------------------------ specification
\* The capture session: renders, metering, the mode dial, the shutter and
\* the pacing timers of the stacks in flight.
Next ==
  \/ Render
  \/ MeterTick
  \/ \E m \in CameraMode : setMode(m)
  \/ handleCapture
  \/ \E s \in stacks : StackTimer(s)

Spec == Init /\ [][Next]_vars

\* The capture session under the scheduling the browser gives it: the timers
\* of suspended stacks fire and React commits pending renders. The metering
\* is left out: it writes settings, which no guard of a capture reads.
FairNext ==
  \/ Render
  \/ \E m \in CameraMode : setMode(m)
  \/ handleCapture
  \/ \E s \in stacks : StackTimer(s)

FairSpec ==
  /\ Init
  /\ [][FairNext]_vars
  /\ WF_vars(\E s \in stacks : StackTimer(s))
  /\ WF_vars(Render)

\* The two modes that take stills: PHOTO goes through the else branch of
\* handleCapture, PRO through performStacking (VIDEO takes the same branch as
\* PHOTO).
StillModes == {"PHOTO", "PRO"}

\* The session with the gallery and the scene analysis.
GalleryNext ==
  \/ Render
  \/ \E m \in StillModes : setMode(m)
  \/ handleCapture
  \/ \E s \in stacks : StackTimer(s)
  \/ openGallery
  \/ closeGallery
  \/ \E k \in 1..MaxCaptures : selectPhoto(k)
  \/ handleAiAnalysis
  \/ \E k \in 1..MaxRequests : AiResponse(k)

GallerySpec == Init /\ [][GalleryNext]_vars

\* The capture session with the clock the ids and timestamps are read from.
ClockNext ==
  \/ Tick
  \/ Render
  \/ \E m \in CameraMode : setMode(m)
  \/ handleCapture
  \/ \E s \in stacks : StackTimer(s)

ClockSpec == Init /\ [][ClockNext]_vars

\* The camera: the start at mount, the retries, the renders.
CamNext ==
  \/ Render
  \/ mountEffect
  \/ retryCamera
  \/ \E s \in starts : StartCameraResume(s)

CamSpec == Init /\ [][CamNext]_vars

\* applyConvolution on every canvas and kernel of the model.
ConvInit == AppInit /\ convIn \in ConvInputs

ConvNext == applyConvolution

ConvSpec == ConvInit /\ [][ConvNext]_vars

\* The pixel pipeline on solid-colour frames.
PipeNext ==
  \/ performStackingBegin
  \/ performStackingFrame
  \/ performStackingEnd
  \/ normalCapturePixel

PipeSpec == Init /\ [][PipeNext]_vars

\* ------------------------------------------------------------------ claims
Abs(x) == IF x < 0 THEN -x ELSE x
Channels == {"r", "g", "b"}
Level(px, ch) == CASE ch = "r" -> px.r [] ch = "g" -> px.g [] OTHER -> px.b
Near(p, q, tol) == \A ch \in Channels : Abs(Level(p, ch) - Level(q, ch)) <= tol

RECURSIVE Factorial(_)
Factorial(n) == IF n <= 1 THEN 1 ELSE n * Factorial(n - 1)

RECURSIVE SumLevels(_, _)
SumLevels(fs, ch) ==
  IF Len(fs) = 0 THEN 0 ELSE Level(fs[Len(fs)], ch) + SumLevels(SubSeq(fs, 1, Len(fs) - 1), ch)

\* acc_i of the rule acc_1 = s_1, acc_i = (1 - 1/i) * acc_(i-1) + (1/i) * s_i,
\* as its numerator over i!.
RECURSIVE BlendNumerator(_, _, _)
BlendNumerator(fs, ch, i) ==
  IF i = 1 THEN Level(fs[1], ch)
  ELSE (i - 1) * BlendNumerator(fs, ch, i - 1) + Factorial(i - 1) * Level(fs[i], ch)

\* One level for every blend after the first draw.
RoundTol(n) == n - 1

Reordered(fs, p) == [k \in 1..Len(fs) |-> fs[p[k]]]

\* C1 as stated: at most one capture is in flight at any time, so no more
\* than one suspended performStacking ever shares the canvas.
C1_OneCaptureInFlight == Cardinality(stacks) <= 1

\* C2: a session that is Capturing (the flag set, or a stack suspended on its
\* pacing delay) gets to a state where nothing is in flight, isCapturing is
\* false and the shutter handler accepts a request again, whether the
\* captures completed or failed.
C2_CaptureLeavesCapturing ==
  (isCapturing \/ stacks # {}) ~> (stacks = {} /\ ~isCapturing /\ CaptureAccepted)

\* Two captures were requested, one of them failed, the one that settled
\* last succeeded, and the session is idle.
C2_Witness ==
  /\ captures = 2
  /\ Len(photos) = 1
  /\ outcome.fault = "none"
  /\ photos[1].hist.via = "stack"
  /\ stacks = {}
  /\ ~isCapturing

\* C3 as stated: a capture that fails adds no artifact and what the caller of
\* handleCapture gets back is the failure's kind.
C3_FailureSurfaced ==
  outcome.fault # "none" => (~outcome.added /\ outcome.returned = outcome.fault)

\* C4: while and after the frames are stacked, every channel of the canvas is
\* within rounding tolerance of the recursive 1/i blend of the frames sampled
\* so far, in their order, and the canvas is opaque.
C4_RecursiveBlend ==
  phase \in {"stacking", "stacked"} =>
    LET acc == IF phase = "stacking" THEN pix ELSE composite
        n == Len(sampled)
    IN /\ acc.a = 255
       /\ \A ch \in Channels :
            Abs(Factorial(n) * Level(acc, ch) - BlendNumerator(sampled, ch, n))
              <= RoundTol(n) * Factorial(n)

\* A finished stack of frameCount frames of more than one colour.
C4_Witness ==
  /\ phase = "stacked"
  /\ Len(sampled) = frameCount
  /\ sampled[1] # sampled[frameCount]
  /\ composite # sampled[frameCount]

\* C5, amended: the pre-look composite of a stack is within rounding
\* tolerance of the arithmetic mean of the sampled frames, and stacking the
\* same frames in any other order gives the same composite within twice that
\* tolerance.
C5_ArithmeticMean ==
  phase = "stacked" =>
    LET n == Len(sampled) IN
    /\ \A ch \in Channels :
         Abs(n * Level(composite, ch) - SumLevels(sampled, ch)) <= n * RoundTol(n)
    /\ \A p \in Permutations(1..n), rnd \in RoundModes :
         Near(composite, StackComposite(Reordered(sampled, p), rnd), 2 * RoundTol(n))

\* A finished stack whose last frame is far from its first and whose
\* composite is far from both.
C5_Witness ==
  /\ phase = "stacked"
  /\ ~Near(sampled[1], sampled[Len(sampled)], 2 * RoundTol(frameCount))
  /\ ~Near(composite, sampled[Len(sampled)], 2 * RoundTol(frameCount))
  /\ ~Near(composite, sampled[1], 2 * RoundTol(frameCount))

\* C5 as stated, where a stack has finished: some sequence of 2..frameCount
\* solid frames has a composite that is off the arithmetic mean by more than
\* rounding tolerance, and some sequence has a composite that changes with
\* the order of its frames.
C5_RecencyWeighted ==
  phase = "stacked" =>
    /\ \E n \in 2..Len(sampled) : \E fs \in [1..n -> FrameColors], rnd \in RoundModes :
         \E ch \in Channels :
           Abs(n * Level(StackComposite(fs, rnd), ch) - SumLevels(fs, ch)) > n * RoundTol(n)
    /\ \E n \in 2..Len(sampled) : \E fs \in [1..n -> FrameColors], rnd \in RoundModes :
         \E p \in Permutations(1..n) :
           ~Near(StackComposite(fs, rnd), StackComposite(Reordered(fs, p), rnd),
                 2 * RoundTol(n))

\* The encodings of a canvas the look has just been applied to, whatever
\* number of frames it holds.
LookedPayloads ==
  {ToDataURL(LookPass(c)) :
     c \in {BlankCanvas, DrawFrame(BlankCanvas), DrawFrame(DrawFrame(BlankCanvas))}}

\* The steps of a capture that went by pipeline via.
ExpectedTrace(via) ==
  IF via = "stack" THEN [k \in 1..frameCount |-> "sample"] \o <<"look", "encode">>
  ELSE <<"sample", "look", "encode">>

\* C6: every artifact comes out of frameCount samples in PRO mode and of one
\* sample otherwise, then one look pass, then one encoding, of a canvas the
\* look was just applied to; a stack in flight has only sampled, and no more
\* than frameCount frames.
C6_StepOrder ==
  /\ \A k \in 1..Len(photos) :
       /\ photos[k].hist.via = IF photos[k].hist.requested.mode = "PRO" THEN "stack" ELSE "single"
       /\ photos[k].hist.trace = ExpectedTrace(photos[k].hist.via)
       /\ photos[k].url \in LookedPayloads
  /\ \A s \in stacks :
       /\ s.i < frameCount
       /\ s.hist.trace = [k \in 1..(s.i + 1) |-> "sample"]

\* One artifact of each pipeline in the photo list.
C6_Witness ==
  /\ Len(photos) = 2
  /\ photos[1].hist.via = "stack"
  /\ photos[2].hist.via = "single"

\* The look as C7 describes it: each stage on the output of the one before.
ChainedLook(px, env) ==
  Filtered(WarmStage(ShadowStage(px, <<1, 1>>, env.rnd), <<1, 1>>, env.rnd), env.filterOk)

\* C7 as stated: the buffer the look returns is the contrast and saturation
\* boost of the tinted buffer, for every frame colour.
C7_StagesChained ==
  (phase \in {"stacked", "single"} /\ grade.tempOk /\ grade.filterOk) =>
    Near(pix, ChainedLook(composite, grade), 2)

\* C8: the metadata of every artifact is the settings and mode of the render
\* whose shutter was pressed, and no step changes an artifact that is in the
\* photo list.
C8_SettingsSnapshot ==
  /\ [](\A k \in 1..Len(photos) :
          LET m == photos[k].metadata
              req == photos[k].hist.requested
          IN /\ m.iso = req.settings.iso
             /\ m.shutterSpeed = req.settings.shutterSpeed
             /\ m.aperture = req.settings.aperture
             /\ m.wb = req.settings.wb
             /\ m.ev = req.settings.ev
             /\ m.mode = req.mode)
  /\ [][/\ Len(photos') >= Len(photos)
        /\ \A k \in 1..Len(photos) : photos'[k + Len(photos') - Len(photos)] = photos[k]]_vars

\* The only capture so far was a stack; the last render, committed while it
\* was in flight, already showed other settings than the requested ones; the
\* artifact has since been added.
C8_Witness ==
  /\ captures = 1
  /\ Len(photos) = 1
  /\ photos[1].hist.via = "stack"
  /\ view.isCapturing
  /\ view.photos = <<>>
  /\ view.settings # photos[1].hist.requested.settings
  /\ ~isCapturing

AnalysisTexts ==
  {KeyMissingText, CouldNotAnalyzeText, AnalysisFailedText} \cup
    {RemoteText(url) : url \in LookedPayloads}

\* C9: what the analysis leaves on screen is always a string analyzeImageScene
\* returned, never the text of handleAiAnalysis's own catch; with the key
\* missing nothing is sent to the remote service and the text is the
\* key-missing sentinel; and no step of an analysis changes isCapturing or
\* the photo list.
C9_AnalysisNeverThrows ==
  /\ [](/\ aiAnalysis \in AnalysisTexts \cup {NULL}
        /\ aiAnalysis # ServiceUnavailableText
        /\ apiKey = "missing" => (requests = <<>> /\ aiAnalysis \in {NULL, KeyMissingText}))
  /\ [][(aiAnalysis' # aiAnalysis \/ isAnalyzing' # isAnalyzing \/ requests' # requests)
          => (photos' = photos /\ isCapturing' = isCapturing)]_vars

\* The remote call failed while a stack was in flight.
C9_Witness ==
  /\ aiAnalysis = CouldNotAnalyzeText
  /\ stacks # {}
  /\ isCapturing

\* C10: an artifact is flagged enhanced exactly when the stacking pipeline
\* produced its payload, and exactly when its metadata says PRO.
C10_EnhancedFlag ==
  \A k \in 1..Len(photos) :
    /\ photos[k].isEnhanced = (photos[k].hist.via = "stack")
    /\ photos[k].isEnhanced = (photos[k].metadata.mode = "PRO")

\* The only capture so far was a stack; the last render, committed while it
\* was in flight, already showed a mode other than PRO; the enhanced artifact
\* has since been added.
C10_Witness ==
  /\ captures = 1
  /\ Len(photos) = 1
  /\ photos[1].isEnhanced
  /\ view.isCapturing
  /\ view.photos = <<>>
  /\ view.mode # "PRO"
  /\ ~isCapturing

\* C11 as stated: no two artifacts in the photo list share an id, also when
\* two captures complete within one tick of the clock.
C11_UniqueIds ==
  \A j, k \in 1..Len(photos) : j # k => photos[j].id # photos[k].id

\* A kernel of odd side whose centre weight is 1 and whose other weights are 0.
IdentityKernel(kernel) ==
  LET side == KernelSide(kernel) IN
  /\ side % 2 = 1
  /\ Len(kernel) = side * side
  /\ \A k \in 1..Len(kernel) : kernel[k] = IF k = (side * side + 1) \div 2 THEN 2 ELSE 0

\* C12: with an identity kernel the buffer applyConvolution puts on the
\* canvas equals the one it read, in all four channels of every pixel, the
\* border pixels included.
C12_IdentityKernel ==
  (convOut.status = "returned" /\ IdentityKernel(convIn.kernel)) => convOut.data = convIn.data

\* A 3x3 identity kernel went over a canvas of MaxDim x MaxDim pixels, all of
\* them on the border, that are not all alike.
C12_Witness ==
  /\ convOut.status = "returned"
  /\ IdentityKernel(convIn.kernel)
  /\ KernelSide(convIn.kernel) = 3
  /\ convIn.width = MaxDim
  /\ convIn.height = MaxDim
  /\ \E j, k \in 1..Len(convIn.data) : convIn.data[j] # convIn.data[k]

RECURSIVE SumF(_, _)
SumF(f, S) ==
  IF S = {} THEN 0 ELSE LET e == CHOOSE e \in S : TRUE IN f[e] + SumF(f, S \ {e})

\* The weighted sum, in halves, of the source pixels the kernel footprint
\* centred on (x, y) covers.
ExpectedSum(in, x, y, ch) ==
  LET side == KernelSide(in.kernel)
      half == side \div 2
      covered == {p \in (0..(in.width - 1)) \X (0..(in.height - 1)) :
                    /\ p[1] - x + half \in 0..(side - 1)
                    /\ p[2] - y + half \in 0..(side - 1)}
      f == [p \in covered |->
              SourceLevel(in, p[1], p[2], ch)
                * in.kernel[(p[2] - y + half) * side + (p[1] - x + half) + 1]]
  IN SumF(f, covered)

\* C13: for a kernel that has all the weights its side asks for, every red,
\* green and blue level written is the weighted sum of the in-bounds samples
\* brought into 0..255: 255 for a sum of 255 or more, 0 for a sum of 0 or
\* less, the sum rounded to a neighbouring level otherwise.
C13_ClampedSum ==
  (convOut.status = "returned"
     /\ KernelSide(convIn.kernel) * KernelSide(convIn.kernel) <= Len(convIn.kernel)) =>
    \A k \in 1..Len(convOut.data) : \A ch \in Channels :
      LET e == ExpectedSum(convIn, (k - 1) % convIn.width, (k - 1) \div convIn.width, ch)
          v == Level(convOut.data[k], ch)
      IN /\ v \in 0..255
         /\ e >= 510 => v = 255
         /\ e <= 0 => v = 0
         /\ (0 < e /\ e < 510) => (2 * v >= e - 1 /\ 2 * v <= e + 1)

\* A 1x1 canvas under a 1x1 kernel of weight 2: red 200 comes out as 255,
\* blue 50 as 100.
C13_Witness ==
  /\ convOut.status = "returned"
  /\ convIn.width = 1
  /\ convIn.height = 1
  /\ convIn.kernel = <<4>>
  /\ convIn.data[1].r = 200
  /\ convOut.data[1].r = 255
  /\ convOut.data[1].b = 100

\* A kernel array C14 calls invalid.
InvalidKernel(kernel) ==
  LET side == KernelSide(kernel) IN side < 1 \/ side % 2 = 0 \/ Len(kernel) # side * side

\* C14 as stated: a call with an invalid kernel, or with a canvas less than
\* one pixel wide or high, fails: it returns no buffer and leaves the canvas
\* as it was.
C14_InvalidInputsRejected ==
  (convOut.status # "none"
     /\ (InvalidKernel(convIn.kernel) \/ convIn.width < 1 \/ convIn.height < 1)) =>
    (convOut.status # "returned" /\ convOut.data = convIn.data)

\* C15 as stated, its first part: every stream but the most recently acquired
\* one has been stopped, so at most one stream is live.
C15_OneLiveStream == liveStreams \subseteq {acquired}

\* What analyzeImageScene can return for a payload.
ResultsFor(url) == {RemoteText(url), AnalysisFailedText, CouldNotAnalyzeText, KeyMissingText}

\* C16 as stated, its first part: an analysis text on display next to a
\* selected photo is a result of analysing that photo's payload.
C16_AnalysisOfSelected ==
  (aiAnalysis # NULL /\ ~isAnalyzing /\ selectedPhoto # NoSelection) =>
    aiAnalysis \in ResultsFor(selectedPhoto[1].url)

====
